---- MODULE Spec2Model ----
(***************************************************************************)
(* The playback state machine of manim_presentation/present.py:            *)
(* Presentation (one deck: slides, video captures, cursor) and Display     *)
(* (the tick loop over a list of presentations, the key handler and the    *)
(* frame clock).                                                           *)
(***************************************************************************)
EXTENDS Integers, Sequences, FiniteSets

VARIABLES
    presentations,          \* Display.presentations: sequence of Presentation objects
    current_presentation_i, \* Display.current_presentation_i (0-based)
    state,                  \* Display.state
    old_state,              \* run's old_state: the state at the top of this iteration
    start_paused,           \* Display.start_paused
    lastframe,              \* Display.lastframe
    lag,                    \* Display.lag
    elapsed,                \* now() - Display.last_time
    key,                    \* the key read by the last handle_key
    pc                      \* position in Display.run's loop body

vars == <<presentations, current_presentation_i, state, old_state, start_paused,
          lastframe, lag, elapsed, key, pc>>

-----------------------------------------------------------------------------
(* Bounds of the model *)

\* frames in every video file
NumFrames == 2
\* largest processing time of one loop iteration outside waitKey
MaxProc == 0

-----------------------------------------------------------------------------
(* class State *)

PLAYING == "Playing"
PAUSED == "Paused"
WAIT == "Wait"
END == "End"

(* class Config: key codes, and what waitKey(...) & 0xFF gives without a key *)

QUIT_KEY == 113
CONTINUE_KEY == 83
BACK_KEY == 81
REWIND_KEY == 114
PLAYPAUSE_KEY == 32
NO_KEY == 255
\* a key bound to nothing ("x")
OtherKeys == {120}

Keys == {QUIT_KEY, CONTINUE_KEY, BACK_KEY, REWIND_KEY, PLAYPAUSE_KEY, NO_KEY}
            \cup OtherKeys

\* no frame read yet (Display.lastframe = None)
None == <<>>

-----------------------------------------------------------------------------
(* cv2.VideoCapture: a decode position over a file of `frames` frames *)

VideoCapture(f) == [file |-> f.file, frames |-> f.frames, fps |-> f.fps, pos |-> 0]

\* cap.read(): the next frame and True, or (False, None) once exhausted
cap_read(cap) ==
    IF cap.pos < cap.frames
    THEN [still_playing |-> TRUE, frame |-> <<cap.file, cap.pos>>,
          cap |-> [cap EXCEPT !.pos = @ + 1]]
    ELSE [still_playing |-> FALSE, frame |-> None, cap |-> cap]

\* a seek that leaves the decode position where it is
cap_seek0_stays(cap) == cap

\* cap.set(cv2.CAP_PROP_POS_FRAMES, 0)
cap_seek0(cap) == [cap EXCEPT !.pos = 0]

-----------------------------------------------------------------------------
(* class Presentation.  Python's 0-based indices are kept in the fields;   *)
(* the sequences are 1-based, hence the + 1 at every access.               *)

current_slide(p) == p.slides[p.current_slide_i + 1]

current_cap(p) == p.caps[p.current_animation + 1]

fps(p) == current_cap(p).fps

\* slides[-1]["terminated"]
terminated(p) == p.slides[Len(p.slides)].terminated

\* reset() that forgets to clear the terminated flag
reset_keeps_terminated(p) ==
    [p EXCEPT !.current_animation = 0,
              !.current_slide_i = 0]

\* reset() that moves the slide index only
reset_keeps_animation(p) ==
    [p EXCEPT !.current_slide_i = 0,
              !.slides[Len(p.slides)].terminated = FALSE]

\* reset() that also seeks the first segment to its first frame
reset_seeks(p) ==
    [p EXCEPT !.current_animation = 0,
              !.current_slide_i = 0,
              !.slides[Len(p.slides)].terminated = FALSE,
              !.caps[1] = cap_seek0(@)]

reset(p) ==
    [p EXCEPT !.current_animation = 0,
              !.current_slide_i = 0,
              !.slides[Len(p.slides)].terminated = FALSE]

load_files(files) == [i \in 1..Len(files) |-> VideoCapture(files[i])]

\* rewind() that sets the index without seeking the capture
rewind_no_seek(p) ==
    [p EXCEPT !.current_animation = current_slide(p).start_animation]

rewind(p) ==
    LET q == [p EXCEPT !.current_animation = current_slide(p).start_animation]
    IN  [q EXCEPT !.caps[q.current_animation + 1] = cap_seek0(@)]

Min(a, b) == IF a < b THEN a ELSE b
Max(a, b) == IF a > b THEN a ELSE b

\* next() that moves the slide index without rewinding
next_no_rewind(p) ==
    IF current_slide(p).type = "last"
    THEN [p EXCEPT !.slides[p.current_slide_i + 1].terminated = TRUE]
    ELSE [p EXCEPT !.current_slide_i =
                       Min(Len(p.slides) - 1, p.current_slide_i + 1)]

\* next() without the branch for the last slide
next_no_terminate(p) ==
    rewind([p EXCEPT !.current_slide_i =
                         Min(Len(p.slides) - 1, p.current_slide_i + 1)])

next(p) ==
    IF current_slide(p).type = "last"
    THEN [p EXCEPT !.slides[p.current_slide_i + 1].terminated = TRUE]
    ELSE rewind([p EXCEPT !.current_slide_i =
                              Min(Len(p.slides) - 1, p.current_slide_i + 1)])

prev(p) == rewind([p EXCEPT !.current_slide_i = Max(0, p.current_slide_i - 1)])

\* Presentation(config) keeping the configured type of the last slide
Presentation_keeps_type(config) ==
    LET n == Len(config.slides)
        slides == [i \in 1..n |->
                     [type |-> config.slides[i].type,
                      start_animation |-> config.slides[i].start_animation,
                      end_animation |-> config.slides[i].end_animation,
                      terminated |-> FALSE]]
    IN  [slides |-> slides,
         caps |-> load_files(config.files),
         current_animation |-> 0,
         current_slide_i |-> 0,
         lastframe |-> None]

\* Presentation(config): the slides get a terminated field (absent in the
\* JSON, read only on the last slide), the last slide gets type "last"
Presentation(config) ==
    LET n == Len(config.slides)
        slides == [i \in 1..n |->
                     [type |-> IF i = n THEN "last" ELSE config.slides[i].type,
                      start_animation |-> config.slides[i].start_animation,
                      end_animation |-> config.slides[i].end_animation,
                      terminated |-> FALSE]]
    IN  [slides |-> slides,
         caps |-> load_files(config.files),
         current_animation |-> 0,
         current_slide_i |-> 0,
         lastframe |-> None]

\* update_state with the terminated check ahead of the WAIT/PAUSED return
update_state_ended_first(p, s) ==
    LET r == cap_read(current_cap(p))
        p1 == [p EXCEPT !.caps[p.current_animation + 1] = r.cap,
                        !.lastframe = IF r.still_playing THEN r.frame ELSE @]
        sl == current_slide(p1)
        ret(q, st) == [pres |-> q, frame |-> q.lastframe, state |-> st]
    IN  IF sl.type = "last" /\ sl.terminated THEN ret(p1, END)
        ELSE IF s \in {WAIT, PAUSED} THEN ret(p1, s)
        ELSE IF ~r.still_playing
        THEN IF sl.end_animation = p1.current_animation + 1
             THEN CASE sl.type = "slide" -> ret(p1, WAIT)
                    [] sl.type = "loop" ->
                         ret(rewind([p1 EXCEPT !.current_animation =
                                                   sl.start_animation]), PLAYING)
                    [] sl.type = "last" -> ret(p1, WAIT)
                    [] OTHER -> ret(p1, s)
             ELSE IF sl.type = "last" /\ sl.end_animation = p1.current_animation
             THEN ret(p1, WAIT)
             ELSE LET q == [p1 EXCEPT !.current_animation = @ + 1]
                  IN  ret([q EXCEPT !.caps[q.current_animation + 1] = cap_seek0(@)], s)
        ELSE ret(p1, s)

\* update_state returning before the read when the state is WAIT or PAUSED
update_state_held_no_read(p, s) ==
    IF s \in {WAIT, PAUSED}
    THEN [pres |-> p, frame |-> p.lastframe, state |-> s]
    ELSE update_state_ended_first(p, s)

\* update_state that stays PLAYING where it should go to WAIT
update_state_keeps_playing(p, s) ==
    IF s = PLAYING
    THEN LET r == update_state_ended_first(p, s)
         IN  [r EXCEPT !.state = IF @ = WAIT THEN PLAYING ELSE @]
    ELSE LET r == cap_read(current_cap(p))
             p1 == [p EXCEPT !.caps[p.current_animation + 1] = r.cap,
                             !.lastframe = IF r.still_playing THEN r.frame ELSE @]
         IN  [pres |-> p1, frame |-> p1.lastframe, state |-> s]

\* update_state(state): the presentation after the call, and the pair returned
update_state(p, s) ==
    LET r == cap_read(current_cap(p))
        p1 == [p EXCEPT !.caps[p.current_animation + 1] = r.cap,
                        !.lastframe = IF r.still_playing THEN r.frame ELSE @]
        sl == current_slide(p1)
        ret(q, st) == [pres |-> q, frame |-> q.lastframe, state |-> st]
    IN  IF s \in {WAIT, PAUSED} THEN ret(p1, s)
        ELSE IF sl.type = "last" /\ sl.terminated THEN ret(p1, END)
        ELSE IF ~r.still_playing
        THEN IF sl.end_animation = p1.current_animation + 1
             THEN CASE sl.type = "slide" -> ret(p1, WAIT)
                    [] sl.type = "loop" ->
                         ret(rewind([p1 EXCEPT !.current_animation =
                                                   sl.start_animation]), PLAYING)
                    [] sl.type = "last" -> ret(p1, WAIT)
                    [] OTHER -> ret(p1, s)
             ELSE IF sl.type = "last" /\ sl.end_animation = p1.current_animation
             THEN ret(p1, WAIT)
             ELSE LET q == [p1 EXCEPT !.current_animation = @ + 1]
                  IN  ret([q EXCEPT !.caps[q.current_animation + 1] = cap_seek0(@)], s)
        ELSE ret(p1, s)

-----------------------------------------------------------------------------
(* The frame clock *)

\* fix_time that lets a wait of 0 through
fix_time_nonneg(x) == IF x >= 0 THEN x ELSE 1

fix_time(x) == IF x > 0 THEN x ELSE 1

\* math.ceil(1000 / fps), fps the rational n/d
sleep_time(f) == (1000 * f.d + f.n - 1) \div f.n

\* the argument of cv2.waitKey in handle_key
wait_budget(p, l) == fix_time(sleep_time(fps(p)) - l)

-----------------------------------------------------------------------------
(* class Display *)

current_presentation == presentations[current_presentation_i + 1]

\* the loop body resetting the presentation it switches to on END
Run_resets_next ==
    /\ pc = "update_state"
    /\ \E proc \in 0..MaxProc :
        LET r == update_state(current_presentation, state)
            s1 == IF r.state \in {PLAYING, PAUSED} /\ start_paused
                  THEN PAUSED ELSE r.state
            last == current_presentation_i = Len(presentations) - 1
            pres == [presentations EXCEPT ![current_presentation_i + 1] = r.pres]
        IN  /\ old_state' = state
            /\ lastframe' = r.frame
            /\ start_paused' = IF r.state \in {PLAYING, PAUSED}
                               THEN FALSE ELSE start_paused
            /\ IF s1 = END
               THEN IF last
                    THEN /\ state' = s1
                         /\ pc' = "exit"
                         /\ presentations' = pres
                         /\ UNCHANGED current_presentation_i
                    ELSE /\ current_presentation_i' = current_presentation_i + 1
                         /\ presentations' =
                                [pres EXCEPT ![current_presentation_i + 2] = reset(@)]
                         /\ state' = PLAYING
                         /\ pc' = "handle_key"
               ELSE /\ state' = s1
                    /\ pc' = "handle_key"
                    /\ presentations' = pres
                    /\ UNCHANGED current_presentation_i
            /\ elapsed' = elapsed + proc
            /\ UNCHANGED <<lag, key>>

\* Display.run, lines 139-150: update_state, start_paused, the switch to the
\* next presentation on END (or quit on the last one)
Run ==
    /\ pc = "update_state"
    /\ \E proc \in 0..MaxProc :
        LET r == update_state(current_presentation, state)
            s1 == IF r.state \in {PLAYING, PAUSED} /\ start_paused
                  THEN PAUSED ELSE r.state
            last == current_presentation_i = Len(presentations) - 1
        IN  /\ old_state' = state
            /\ presentations' =
                   [presentations EXCEPT ![current_presentation_i + 1] = r.pres]
            /\ lastframe' = r.frame
            /\ start_paused' = IF r.state \in {PLAYING, PAUSED}
                               THEN FALSE ELSE start_paused
            /\ IF s1 = END
               THEN IF last
                    THEN /\ state' = s1
                         /\ pc' = "exit"
                         /\ UNCHANGED current_presentation_i
                    ELSE /\ current_presentation_i' = current_presentation_i + 1
                         /\ state' = PLAYING
                         /\ pc' = "handle_key"
               ELSE /\ state' = s1
                    /\ pc' = "handle_key"
                    /\ UNCHANGED current_presentation_i
            /\ elapsed' = elapsed + proc
            /\ UNCHANGED <<lag, key>>

\* handle_key leaving WAIT on any key pressed
handle_key_any_key(k) ==
    LET i == current_presentation_i + 1
        p == current_presentation
        same == [pres |-> presentations, i |-> current_presentation_i,
                 state |-> state, quit |-> FALSE]
    IN  IF k = QUIT_KEY THEN [same EXCEPT !.quit = TRUE]
        ELSE IF state = PLAYING /\ k = PLAYPAUSE_KEY THEN [same EXCEPT !.state = PAUSED]
        ELSE IF state = PAUSED /\ k = PLAYPAUSE_KEY THEN [same EXCEPT !.state = PLAYING]
        ELSE IF state = WAIT /\ k # NO_KEY /\ k # BACK_KEY /\ k # REWIND_KEY
        THEN [same EXCEPT !.pres[i] = next(p), !.state = PLAYING]
        ELSE IF state = PLAYING /\ k = CONTINUE_KEY
        THEN [same EXCEPT !.pres[i] = next(p)]
        ELSE IF k = BACK_KEY
        THEN IF p.current_slide_i = 0
             THEN LET j == Max(0, current_presentation_i - 1)
                  IN  [same EXCEPT !.i = j,
                                   !.pres[j + 1] = reset(presentations[j + 1]),
                                   !.state = PLAYING]
             ELSE [same EXCEPT !.pres[i] = prev(p), !.state = PLAYING]
        ELSE IF k = REWIND_KEY
        THEN [same EXCEPT !.pres[i] = rewind(p), !.state = PLAYING]
        ELSE same

\* handle_key calling next() on CONTINUE_KEY when PAUSED as well
handle_key_continue_when_paused(k) ==
    LET i == current_presentation_i + 1
        p == current_presentation
        same == [pres |-> presentations, i |-> current_presentation_i,
                 state |-> state, quit |-> FALSE]
    IN  IF k = QUIT_KEY THEN [same EXCEPT !.quit = TRUE]
        ELSE IF state = PLAYING /\ k = PLAYPAUSE_KEY THEN [same EXCEPT !.state = PAUSED]
        ELSE IF state = PAUSED /\ k = PLAYPAUSE_KEY THEN [same EXCEPT !.state = PLAYING]
        ELSE IF state = WAIT /\ (k = CONTINUE_KEY \/ k = PLAYPAUSE_KEY)
        THEN [same EXCEPT !.pres[i] = next(p), !.state = PLAYING]
        ELSE IF state \in {PLAYING, PAUSED} /\ k = CONTINUE_KEY
        THEN [same EXCEPT !.pres[i] = next(p)]
        ELSE IF k = BACK_KEY
        THEN IF p.current_slide_i = 0
             THEN LET j == Max(0, current_presentation_i - 1)
                  IN  [same EXCEPT !.i = j,
                                   !.pres[j + 1] = reset(presentations[j + 1]),
                                   !.state = PLAYING]
             ELSE [same EXCEPT !.pres[i] = prev(p), !.state = PLAYING]
        ELSE IF k = REWIND_KEY
        THEN [same EXCEPT !.pres[i] = rewind(p), !.state = PLAYING]
        ELSE same

\* handle_key going to the previous presentation on BACK_KEY from any slide
handle_key_back_any_slide(k) ==
    LET i == current_presentation_i + 1
        p == current_presentation
        same == [pres |-> presentations, i |-> current_presentation_i,
                 state |-> state, quit |-> FALSE]
    IN  IF k = QUIT_KEY THEN [same EXCEPT !.quit = TRUE]
        ELSE IF state = PLAYING /\ k = PLAYPAUSE_KEY THEN [same EXCEPT !.state = PAUSED]
        ELSE IF state = PAUSED /\ k = PLAYPAUSE_KEY THEN [same EXCEPT !.state = PLAYING]
        ELSE IF state = WAIT /\ (k = CONTINUE_KEY \/ k = PLAYPAUSE_KEY)
        THEN [same EXCEPT !.pres[i] = next(p), !.state = PLAYING]
        ELSE IF state = PLAYING /\ k = CONTINUE_KEY
        THEN [same EXCEPT !.pres[i] = next(p)]
        ELSE IF k = BACK_KEY
        THEN LET j == Max(0, current_presentation_i - 1)
             IN  [same EXCEPT !.i = j,
                              !.pres[j + 1] = reset(presentations[j + 1]),
                              !.state = PLAYING]
        ELSE IF k = REWIND_KEY
        THEN [same EXCEPT !.pres[i] = rewind(p), !.state = PLAYING]
        ELSE same

\* the branches of handle_key after the key is read: the new
\* <<presentations, current_presentation_i, state>>, or quit
handle_key(k) ==
    LET i == current_presentation_i + 1
        p == current_presentation
        same == [pres |-> presentations, i |-> current_presentation_i,
                 state |-> state, quit |-> FALSE]
    IN  IF k = QUIT_KEY THEN [same EXCEPT !.quit = TRUE]
        ELSE IF state = PLAYING /\ k = PLAYPAUSE_KEY THEN [same EXCEPT !.state = PAUSED]
        ELSE IF state = PAUSED /\ k = PLAYPAUSE_KEY THEN [same EXCEPT !.state = PLAYING]
        ELSE IF state = WAIT /\ (k = CONTINUE_KEY \/ k = PLAYPAUSE_KEY)
        THEN [same EXCEPT !.pres[i] = next(p), !.state = PLAYING]
        ELSE IF state = PLAYING /\ k = CONTINUE_KEY
        THEN [same EXCEPT !.pres[i] = next(p)]
        ELSE IF k = BACK_KEY
        THEN IF p.current_slide_i = 0
             THEN LET j == Max(0, current_presentation_i - 1)
                  IN  [same EXCEPT !.i = j,
                                   !.pres[j + 1] = reset(presentations[j + 1]),
                                   !.state = PLAYING]
             ELSE [same EXCEPT !.pres[i] = prev(p), !.state = PLAYING]
        ELSE IF k = REWIND_KEY
        THEN [same EXCEPT !.pres[i] = rewind(p), !.state = PLAYING]
        ELSE same

\* Display.handle_key: waitKey blocks for the wait budget, or returns
\* earlier with the key pressed
HandleKey ==
    /\ pc = "handle_key"
    /\ \E k \in Keys :
        \E waited \in 0..wait_budget(current_presentation, lag) :
            /\ k = NO_KEY => waited = wait_budget(current_presentation, lag)
            /\ LET h == handle_key(k)
               IN  /\ presentations' = h.pres
                   /\ current_presentation_i' = h.i
                   /\ state' = h.state
                   /\ pc' = IF h.quit THEN "exit" ELSE "show_video"
            /\ key' = k
            /\ elapsed' = elapsed + waited
            /\ UNCHANGED <<old_state, start_paused, lastframe, lag>>

\* Display.show_video (and show_info, which only draws)
ShowVideo ==
    /\ pc = "show_video"
    /\ lag' = elapsed
    /\ elapsed' = 0
    /\ key' = NO_KEY
    /\ pc' = "update_state"
    /\ UNCHANGED <<presentations, current_presentation_i, state, old_state,
                   start_paused, lastframe>>

-----------------------------------------------------------------------------
(* Deck configurations (the JSON files), slide ranges tiling the files *)

Slide(t, a, b) == [type |-> t, start_animation |-> a, end_animation |-> b]

\* the n files of scene sc, each of NumFrames frames at frame rate f
Files(sc, n, f) ==
    [i \in 1..n |-> [file |-> <<sc, i - 1>>, frames |-> NumFrames, fps |-> f]]

FastFps == [n |-> 1000, d |-> 1]

\* the decks: A of the scenario (a sequential slide over two files, then the
\* last one), B opening with a loop and ending in a slide configured "slide",
\* C ending in a last slide over two files, D a single slide, E two
\* one-file slides
DeckA(sc, f) == [slides |-> <<Slide("slide", 0, 2), Slide("last", 2, 3)>>, files |-> Files(sc, 3, f)]
DeckB(sc, f) == [slides |-> <<Slide("loop", 0, 2), Slide("slide", 2, 3)>>, files |-> Files(sc, 3, f)]
DeckC(sc, f) == [slides |-> <<Slide("loop", 0, 1), Slide("loop", 1, 3)>>, files |-> Files(sc, 3, f)]
DeckD(sc, f) == [slides |-> <<Slide("last", 0, 1)>>, files |-> Files(sc, 1, f)]
DeckE(sc, f) == [slides |-> <<Slide("slide", 0, 1), Slide("last", 1, 2)>>, files |-> Files(sc, 2, f)]

\* the scenes of one command line
Sessions(f) ==
    { <<DeckA(0, f)>>, <<DeckB(0, f)>>, <<DeckC(0, f)>>, <<DeckD(0, f)>>,
      <<DeckD(0, f), DeckA(1, f)>>, <<DeckB(0, f), DeckD(1, f)>>,
      <<DeckE(0, f), DeckE(1, f)>>,
      <<DeckD(0, f), DeckD(1, f), DeckD(2, f)>> }

\* main(): one Presentation per scene, then Display(presentations, start_paused)
InitWith(configs, entry) ==
    /\ presentations = [i \in 1..Len(configs) |-> Presentation(configs[i])]
    /\ current_presentation_i = 0
    /\ state = PLAYING
    /\ old_state = PLAYING
    /\ start_paused \in BOOLEAN
    /\ lastframe = None
    /\ lag = 0
    /\ elapsed = 0
    /\ key = NO_KEY
    /\ pc = entry

Init == \E configs \in Sessions(FastFps) : InitWith(configs, "update_state")

Next == Run \/ HandleKey \/ ShowVideo

Spec == Init /\ [][Next]_vars

-----------------------------------------------------------------------------
(* The frame clock at the frame rates of real videos: the same loop over   *)
(* the one-slide deck, its file at 24, 30, 60 or 30000/1001 frames a       *)
(* second.                                                                  *)

ClockFps == { [n |-> 24, d |-> 1], [n |-> 30, d |-> 1], [n |-> 60, d |-> 1],
              [n |-> 30000, d |-> 1001] }

InitClock == \E f \in ClockFps : InitWith(<<DeckD(0, f)>>, "update_state")

SpecClock == InitClock /\ [][Next]_vars

-----------------------------------------------------------------------------
(* A Presentation driven directly through its methods, in any order and    *)
(* with any state passed to update_state; pc names the last method called. *)

ApiDecks(f) == {DeckA(0, f), DeckB(0, f), DeckC(0, f), DeckD(0, f), DeckE(0, f)}

InitApi == \E config \in ApiDecks(FastFps) : InitWith(<<config>>, "api")

ApiCall(name, p) ==
    /\ pc \notin {"update_state", "handle_key", "show_video", "exit"}
    /\ presentations' = [presentations EXCEPT ![current_presentation_i + 1] = p]
    /\ pc' = name
    /\ UNCHANGED <<current_presentation_i, old_state, start_paused, lag, elapsed,
                   key>>

\* the caller picks the state it passes to update_state
ApiSetState ==
    /\ pc \notin {"update_state", "handle_key", "show_video", "exit"}
    /\ \E s \in {PLAYING, PAUSED, WAIT} : state' = s
    /\ pc' = "api"
    /\ UNCHANGED <<presentations, current_presentation_i, old_state, start_paused,
                   lastframe, lag, elapsed, key>>

ApiUpdateState ==
    LET r == update_state(current_presentation, state)
    IN  /\ state # END
        /\ ApiCall("call_update_state", r.pres)
        /\ lastframe' = r.frame
        /\ state' = r.state

ApiNext == ApiCall("call_next", next(current_presentation))
             /\ UNCHANGED <<state, lastframe>>

ApiPrev == ApiCall("call_prev", prev(current_presentation))
             /\ UNCHANGED <<state, lastframe>>

ApiRewind == ApiCall("call_rewind", rewind(current_presentation))
               /\ UNCHANGED <<state, lastframe>>

ApiReset == ApiCall("call_reset", reset(current_presentation))
              /\ UNCHANGED <<state, lastframe>>

NextApi == ApiSetState \/ ApiUpdateState \/ ApiNext \/ ApiPrev \/ ApiRewind
             \/ ApiReset

SpecApi == InitApi /\ [][NextApi]_vars

-----------------------------------------------------------------------------
(* The loop left alone: no key is ever pressed, so every waitKey blocks for *)
(* its whole budget; one-slide deck, files at 20 to 60 frames a second.     *)

CadenceFps == { [n |-> k, d |-> 1] : k \in 20..60 }

InitCadence == \E f \in CadenceFps : InitWith(<<DeckD(0, f)>>, "update_state")

\* handle_key when waitKey times out
WaitNoKey == HandleKey /\ key' = NO_KEY

NextCadence == Run \/ WaitNoKey \/ ShowVideo

SpecCadence == InitCadence /\ [][NextCadence]_vars

-----------------------------------------------------------------------------
(* The tick loop keeps running: run() is a `while True` whose body always   *)
(* returns (waitKey times out when no key is pressed), so a step of the loop *)
(* that can be taken is eventually taken.                                    *)

\* the scenes of the command lines played under this assumption
LiveSessions(f) == { <<DeckA(0, f)>>, <<DeckD(0, f), DeckD(1, f)>> }

InitLive == \E configs \in LiveSessions(FastFps) : InitWith(configs, "update_state")

SpecLive == InitLive /\ [][Next]_vars /\ WF_vars(Next)

-----------------------------------------------------------------------------
(* manim_slides/config.py: the validation of a presentation configuration. *)
(* Each validator gives the set of errors it raises; pydantic collects the  *)
(* errors of all the items of a list, runs the field validators of a model  *)
(* only when its "before" validator passed, and its "after" validator only  *)
(* when every field passed.                                                  *)

NEGATIVE_INDEX == "Animation index (start or end) cannot be negative"
BAD_NUMBER == "Slide number cannot be negative or zero"
NO_ANIMATION == "You have to play at least one animation before pausing"
BAD_ORDER == "Start animation index must be strictly lower than end animation index"
NOT_IN_FILES == "The following slide's contains animations not listed in files"

index_is_posint(v) == IF v < 0 THEN {NEGATIVE_INDEX} ELSE {}

number_is_strictly_posint(v) == IF v <= 0 THEN {BAD_NUMBER} ELSE {}

\* the ordering check comparing with > instead of >=
start_animation_is_before_end_strict(values) ==
    IF values.start_animation > values.end_animation
    THEN IF values.start_animation = values.end_animation /\ values.end_animation = 0
         THEN {NO_ANIMATION}
         ELSE {BAD_ORDER}
    ELSE {}

start_animation_is_before_end(values) ==
    IF values.start_animation >= values.end_animation
    THEN IF values.start_animation = values.end_animation /\ values.end_animation = 0
         THEN {NO_ANIMATION}
         ELSE {BAD_ORDER}
    ELSE {}

\* SlideConfig(**values): the errors of one slide
SlideConfig(values) ==
    IF start_animation_is_before_end(values) # {}
    THEN start_animation_is_before_end(values)
    ELSE index_is_posint(values.start_animation)
           \cup index_is_posint(values.end_animation)
           \cup number_is_strictly_posint(values.number)

animation_indices_match_files(config) ==
    IF \E i \in 1..Len(config.slides) :
           config.slides[i].end_animation > Len(config.files)
    THEN {<<"config", NOT_IN_FILES>>}
    ELSE {}

\* PresentationConfig(**config): the errors, each with the place it is
\* raised at (the index of the slide, or the whole configuration)
PresentationConfig(config) ==
    LET of_slides == UNION { {<<i, e>> : e \in SlideConfig(config.slides[i])} :
                               i \in 1..Len(config.slides) }
    IN  IF of_slides # {} THEN of_slides
        ELSE animation_indices_match_files(config)

\* largest animation index and largest number of files of the configurations
MaxIndex == 2

SlideValues ==
    [type : {"slide"}, start_animation : (-1)..MaxIndex,
     end_animation : (-1)..MaxIndex, number : 0..2]

\* the configurations read: one or two slides, 0 to MaxIndex files
Configs ==
    { [slides |-> sl, files |-> [i \in 1..n |-> <<"file", i>>]] :
        sl \in UNION { [1..k -> SlideValues] : k \in 1..2 }, n \in 0..MaxIndex }

\* a configuration is about to be validated: presentations holds it, pc
\* tells whether it was accepted
InitConfig ==
    /\ \E config \in Configs : presentations = <<config>>
    /\ current_presentation_i = 0
    /\ state = PLAYING
    /\ old_state = PLAYING
    /\ start_paused = FALSE
    /\ lastframe = None
    /\ lag = 0
    /\ elapsed = 0
    /\ key = NO_KEY
    /\ pc = "load_config"

LoadConfig ==
    /\ pc = "load_config"
    /\ pc' = IF PresentationConfig(presentations[1]) = {}
             THEN "config_loaded" ELSE "validation_error"
    /\ UNCHANGED <<presentations, current_presentation_i, state, old_state,
                   start_paused, lastframe, lag, elapsed, key>>

SpecConfig == InitConfig /\ [][LoadConfig]_vars

-----------------------------------------------------------------------------
(* Properties *)

\* the presentation of index d (0-based), now and after the step
Deck(d) == presentations[d + 1]
DeckAfter(d) == presentations'[d + 1]

DeckIds == 0..(Len(presentations) - 1)

OnTerminatedLast(p) == current_slide(p).type = "last" /\ current_slide(p).terminated

\* <<slide index, animation index>> of a presentation
Cursor(p) == <<p.current_slide_i, p.current_animation>>

\* the decode positions of a presentation's captures
Positions(p) == [i \in 1..Len(p.caps) |-> p.caps[i].pos]

\* this step is handle_key reading key k
KeyStep(k) == pc = "handle_key" /\ key' = k

\* C1 as stated: whatever state is passed (Playing, Paused or Wait) and
\* whatever the read gives, update_state on a presentation whose current
\* slide is the last one with terminated = true returns End.
C1_EndedForEveryState ==
    [][(pc' = "call_update_state" /\ OnTerminatedLast(current_presentation))
          => state' = END]_vars

\* C1 amended: on such a presentation update_state returns End when the
\* state passed is Playing, for either read result, and returns the state
\* passed when it is Paused or Wait.
C1_EndedWhenPlaying ==
    [][(pc' = "call_update_state" /\ OnTerminatedLast(current_presentation))
          => state' = (IF state = PLAYING THEN END ELSE state)]_vars

C1_Witness ==
    /\ pc = "call_update_state"
    /\ state = END
    /\ OnTerminatedLast(current_presentation)

\* next() was called on the active presentation and nothing else changed a deck
NextCalled ==
    presentations' = [presentations EXCEPT ![current_presentation_i + 1] = next(@)]

\* C2 as stated: the state goes from Wait to another state only in a
\* handle_key that read Continue or PlayPause and called next(); no
\* other key and no step without a key takes the state out of Wait.
C2_WaitLeftOnlyByContinue ==
    [][(state = WAIT /\ state' # WAIT)
          => /\ pc = "handle_key"
             /\ key' \in {CONTINUE_KEY, PLAYPAUSE_KEY}
             /\ NextCalled]_vars

\* C2 amended: the state goes from Wait to another state only in a
\* handle_key that read Continue, PlayPause, Back or Rewind, and the new state
\* is Playing; with Continue or PlayPause next() was called on the active
\* presentation.  No other key and no step without a key leaves Wait.
C2_WaitLeftOnlyByCommand ==
    [][(state = WAIT /\ state' # WAIT)
          => /\ pc = "handle_key"
             /\ key' \in {CONTINUE_KEY, PLAYPAUSE_KEY, BACK_KEY, REWIND_KEY}
             /\ state' = PLAYING
             /\ key' \in {CONTINUE_KEY, PLAYPAUSE_KEY} => NextCalled]_vars

C2_Witness ==
    /\ pc = "show_video"
    /\ old_state = WAIT
    /\ state = PLAYING
    /\ key = CONTINUE_KEY

\* C3: a Back that does not switch presentations (in particular on slide 0
\* of presentation 0) does what prev() does: the slide index becomes
\* max(0, i - 1), current_animation that slide's start_animation, and the
\* capture of that animation is at its first frame.
C3_BackIsPrev ==
    [][(KeyStep(BACK_KEY) /\ current_presentation_i' = current_presentation_i)
          => LET p == current_presentation
                 q == DeckAfter(current_presentation_i)
                 j == Max(0, p.current_slide_i - 1)
             IN  /\ q.current_slide_i = j
                 /\ q.current_animation = p.slides[j + 1].start_animation
                 /\ current_cap(q).pos = 0]_vars

\* C4: a Back read while the active presentation is on slide 0 and is not the
\* first one moves current_presentation_i down by exactly one, leaves the
\* newly active presentation on slide 0 with terminated = false, sets the
\* state to Playing and changes the cursor and the terminated flag of no
\* other presentation.
C4_BackAcrossDecks ==
    [][(KeyStep(BACK_KEY) /\ current_presentation.current_slide_i = 0
            /\ current_presentation_i > 0)
          => /\ current_presentation_i' = current_presentation_i - 1
             /\ DeckAfter(current_presentation_i').current_slide_i = 0
             /\ ~terminated(DeckAfter(current_presentation_i'))
             /\ state' = PLAYING
             /\ \A d \in DeckIds \ {current_presentation_i'} :
                    /\ Cursor(DeckAfter(d)) = Cursor(Deck(d))
                    /\ terminated(DeckAfter(d)) = terminated(Deck(d))]_vars

\* Back has just moved from a presentation that was played to the one before
C4_Witness ==
    /\ pc = "show_video"
    /\ key = BACK_KEY
    /\ state = PLAYING
    /\ current_presentation_i + 1 < Len(presentations)
    /\ Deck(current_presentation_i + 1).lastframe # None
    /\ Cursor(current_presentation) = <<0, 0>>
    /\ ~terminated(current_presentation)

\* this step is the loop body whose update_state returns END
EndedStep ==
    /\ pc = "update_state"
    /\ update_state(current_presentation, state).state = END

\* this step is a Back that moves to the presentation before
BackAcrossStep ==
    /\ KeyStep(BACK_KEY)
    /\ current_presentation.current_slide_i = 0
    /\ current_presentation_i > 0

\* C5: when update_state returns End on the last presentation the session
\* ends in that iteration, no key being handled; on any other presentation
\* current_presentation_i goes up by exactly one, the state becomes Playing
\* and the cursor of the newly active presentation is left as it was.
\* current_presentation_i changes in no other step than this one and a Back
\* across presentations.
C5_EndedSwitchesDeck ==
    [][/\ (EndedStep /\ current_presentation_i = Len(presentations) - 1)
          => (pc' = "exit" /\ key' = key
                /\ current_presentation_i' = current_presentation_i)
       /\ (EndedStep /\ current_presentation_i < Len(presentations) - 1)
          => /\ current_presentation_i' = current_presentation_i + 1
             /\ state' = PLAYING
             /\ pc' = "handle_key"
             /\ Cursor(DeckAfter(current_presentation_i')) =
                   Cursor(Deck(current_presentation_i'))
       /\ current_presentation_i' # current_presentation_i
          => \/ EndedStep /\ current_presentation_i' = current_presentation_i + 1
             \/ BackAcrossStep /\ current_presentation_i' = current_presentation_i - 1
      ]_vars

\* the scene a frame was read from
SceneOf(frame) == frame[1][1]

\* the loop has just switched (the frame shown is still of the presentation
\* before) to a presentation whose cursor had been moved
C5_Witness ==
    /\ pc = "handle_key"
    /\ current_presentation_i > 0
    /\ state = PLAYING
    /\ lastframe # None
    /\ SceneOf(lastframe) = current_presentation_i - 1
    /\ terminated(Deck(current_presentation_i - 1))
    /\ current_presentation.current_animation > 0

\* the capture the presentation reads from has no frame left
Exhausted(p) == current_cap(p).pos = current_cap(p).frames

\* C6: in every state of the loop, for every presentation, current_animation
\* lies in the range of the current slide (start_animation <=
\* current_animation < end_animation, so it never equals end_animation) and
\* in the range of the files.
C6_CursorInRange ==
    \A d \in DeckIds :
        LET p == Deck(d)
            sl == current_slide(p)
        IN  /\ sl.start_animation <= p.current_animation
            /\ p.current_animation < sl.end_animation
            /\ 0 <= p.current_animation
            /\ p.current_animation < Len(p.caps)

\* the last file of a slide over several files has been read to its end
C6_Witness ==
    /\ pc = "handle_key"
    /\ state = WAIT
    /\ Exhausted(current_presentation)
    /\ current_slide(current_presentation).start_animation + 1
          < current_slide(current_presentation).end_animation
    /\ current_presentation.current_animation + 1
          = current_slide(current_presentation).end_animation

NotWaitOnLoop ==
    ~(state = WAIT /\ current_slide(current_presentation).type = "loop")

\* the loop body finds the last file of a loop slide exhausted while Playing
LoopEndStep ==
    /\ pc = "update_state"
    /\ state = PLAYING
    /\ current_slide(current_presentation).type = "loop"
    /\ current_presentation.current_animation + 1
          = current_slide(current_presentation).end_animation
    /\ Exhausted(current_presentation)

\* C7: the state is never Wait while the current slide of the active
\* presentation is a loop; when the last file of a loop slide is exhausted
\* in Playing, current_animation goes back to the slide's start_animation,
\* the capture of that file is at its first frame, and the state stays
\* Playing on the same slide.
C7_LoopNeverWaits ==
    /\ []NotWaitOnLoop
    /\ [][LoopEndStep
             => LET sl == current_slide(current_presentation)
                    q == DeckAfter(current_presentation_i)
                IN  /\ current_presentation_i' = current_presentation_i
                    /\ q.current_slide_i = current_presentation.current_slide_i
                    /\ q.current_animation = sl.start_animation
                    /\ q.caps[sl.start_animation + 1].pos = 0
                    /\ state' = PLAYING]_vars

\* a loop over two files has just started over
C7_Witness ==
    /\ pc = "handle_key"
    /\ state = PLAYING
    /\ LET p == current_presentation
           sl == current_slide(p)
       IN  /\ sl.type = "loop"
           /\ sl.start_animation + 1 < sl.end_animation
           /\ p.current_animation = sl.start_animation
           /\ current_cap(p).pos = 0
           /\ p.caps[sl.end_animation].pos = p.caps[sl.end_animation].frames

\* C8: next() on a slide of index i that is not the last one moves the slide
\* index to min(i + 1, last index), sets current_animation to the new
\* slide's start_animation and leaves that file's capture at its first
\* frame; next() on the last slide sets terminated and changes neither the
\* slide index, nor current_animation, nor the position of any capture.
C8_NextEffect ==
    [][pc' = "call_next"
          => LET p == current_presentation
                 q == DeckAfter(current_presentation_i)
             IN  IF current_slide(p).type # "last"
                 THEN /\ q.current_slide_i =
                            Min(p.current_slide_i + 1, Len(p.slides) - 1)
                      /\ q.current_animation =
                            p.slides[q.current_slide_i + 1].start_animation
                      /\ current_cap(q).pos = 0
                 ELSE /\ terminated(q)
                      /\ Cursor(q) = Cursor(p)
                      /\ Positions(q) = Positions(p)]_vars

\* next() has moved to a later slide
C8_Witness ==
    /\ pc = "call_next"
    /\ current_presentation.current_slide_i > 0
    /\ ~terminated(current_presentation)
    /\ current_presentation.current_animation
          = current_slide(current_presentation).start_animation
    /\ current_cap(current_presentation).pos = 0

\* the session is the one deck of three files: slide A ("slide", [0,2)),
\* slide B ("last", [2,3))
IsScenario ==
    /\ Len(presentations) = 1
    /\ [i \in 1..Len(Deck(0).slides) |->
           <<Deck(0).slides[i].type, Deck(0).slides[i].start_animation,
             Deck(0).slides[i].end_animation>>]
         = << <<"slide", 0, 2>>, <<"last", 2, 3>> >>
    /\ Len(Deck(0).caps) = 3

\* the loop body finds the file of animation a exhausted while Playing
ExhaustStep(a) ==
    /\ pc = "update_state"
    /\ state = PLAYING
    /\ Deck(0).current_animation = a
    /\ Exhausted(Deck(0))
    /\ ~terminated(Deck(0))

\* C9: on that deck, from file 0 in Playing: file 0 exhausted gives file 1,
\* slide A, Playing; file 1 exhausted gives Wait; Continue gives slide B,
\* file 2, Playing; file 2 exhausted gives Wait; Continue sets terminated;
\* the next update_state returns End (and the session, of one deck, ends).
C9_Scenario ==
    [][IsScenario
          => /\ (ExhaustStep(0) /\ Deck(0).current_slide_i = 0)
                => (Cursor(DeckAfter(0)) = <<0, 1>> /\ state' = PLAYING)
             /\ (ExhaustStep(1) /\ Deck(0).current_slide_i = 0)
                => (Cursor(DeckAfter(0)) = <<0, 1>> /\ state' = WAIT)
             /\ (KeyStep(CONTINUE_KEY) /\ state = WAIT /\ Cursor(Deck(0)) = <<0, 1>>)
                => (Cursor(DeckAfter(0)) = <<1, 2>> /\ state' = PLAYING
                      /\ ~terminated(DeckAfter(0)))
             /\ (ExhaustStep(2) /\ Deck(0).current_slide_i = 1)
                => (Cursor(DeckAfter(0)) = <<1, 2>> /\ state' = WAIT)
             /\ (KeyStep(CONTINUE_KEY) /\ state = WAIT /\ Cursor(Deck(0)) = <<1, 2>>)
                => (terminated(DeckAfter(0)) /\ Cursor(DeckAfter(0)) = <<1, 2>>)
             /\ (pc = "update_state" /\ terminated(Deck(0)))
                => (state' = END /\ pc' = "exit")]_vars

\* the scenario has run to its end
C9_Witness ==
    /\ IsScenario
    /\ pc = "exit"
    /\ state = END
    /\ old_state = PLAYING
    /\ Cursor(Deck(0)) = <<1, 2>>
    /\ terminated(Deck(0))
    /\ \A i \in 1..3 : Deck(0).caps[i].pos = Deck(0).caps[i].frames

\* the least integer c with c * b >= a, for a >= 0 and b > 0 (it is one of
\* the two integers around a / b)
CeilDiv(a, b) ==
    CHOOSE c \in (a \div b)..((a \div b) + 1) : c * b >= a /\ (c - 1) * b < a

C11_CadenceMatchesFps ==
    (pc = "show_video" /\ lag > 0)
        => LET f == fps(current_presentation)
               T == CeilDiv(1000 * f.d, f.n)
           IN  /\ lag + elapsed >= 2 * T - 1
               /\ lag + elapsed <= 2 * T + 1

\* the last slide of every presentation has type "last"
FinalSlideIsLast ==
    \A d \in DeckIds : Deck(d).slides[Len(Deck(d).slides)].type = "last"

\* C12: whatever type the configuration gives the final slide ("last",
\* "slide" or "loop"), after construction its type is "last" and terminated
\* is false; the type stays "last" ever after, and after any reset()
\* terminated is false again.
C12_FinalSlideTerminal ==
    /\ FinalSlideIsLast /\ (\A d \in DeckIds : ~terminated(Deck(d)))
    /\ []FinalSlideIsLast
    /\ [][pc' = "call_reset"
             => ~terminated(DeckAfter(current_presentation_i))]_vars

\* reset() has brought back to its first slide, a loop, a presentation
\* that was played to the end (its final slide was configured "slide" or
\* "loop")
C12_Witness ==
    /\ pc = "call_reset"
    /\ ~terminated(current_presentation)
    /\ Cursor(current_presentation) = <<0, 0>>
    /\ Len(current_presentation.slides) > 1
    /\ \A i \in 1..Len(current_presentation.caps) :
           current_presentation.caps[i].pos = current_presentation.caps[i].frames
    /\ current_slide(current_presentation).type = "loop"

\* C13: a configuration is rejected when some slide has start_animation >=
\* end_animation, with the error about playing at least one animation when
\* both are 0 and the error about the ordering otherwise, and when some
\* slide's end_animation exceeds the number of files; a configuration whose
\* slides all have 0 <= start_animation < end_animation <= len(files) and
\* number > 0 is accepted.
C13_Validation ==
    [][pc = "load_config"
          => LET config == presentations[1]
                 slides == config.slides
                 errors == PresentationConfig(config)
             IN  /\ \A i \in 1..Len(slides) :
                        slides[i].start_animation >= slides[i].end_animation
                           => /\ pc' = "validation_error"
                              /\ IF slides[i].start_animation = 0
                                       /\ slides[i].end_animation = 0
                                 THEN <<i, NO_ANIMATION>> \in errors
                                        /\ <<i, BAD_ORDER>> \notin errors
                                 ELSE <<i, BAD_ORDER>> \in errors
                                        /\ <<i, NO_ANIMATION>> \notin errors
                 /\ (\E i \in 1..Len(slides) :
                        slides[i].end_animation > Len(config.files))
                       => pc' = "validation_error"
                 /\ (\A i \in 1..Len(slides) :
                        /\ 0 <= slides[i].start_animation
                        /\ slides[i].start_animation < slides[i].end_animation
                        /\ slides[i].end_animation <= Len(config.files)
                        /\ slides[i].number > 0)
                       => (pc' = "config_loaded" /\ errors = {})]_vars

\* two well-formed slides over two files have been accepted
C13_Witness ==
    /\ pc = "config_loaded"
    /\ Len(presentations[1].slides) = 2
    /\ Len(presentations[1].files) = 2
    /\ presentations[1].slides[1].end_animation = 1
    /\ presentations[1].slides[2].end_animation = 2

\* C14: update_state called with state Paused or Wait returns that state
\* and leaves the slide index, the animation index and the terminated flag
\* unchanged, but still reads once from the current segment: when the
\* segment is not exhausted its decode position advances by one frame and
\* the cached last frame becomes the frame read (otherwise both stay), and
\* no other segment moves.
C14_HeldStillReads ==
    [][(pc' = "call_update_state" /\ state \in {PAUSED, WAIT})
          => LET p == current_presentation
                 q == DeckAfter(current_presentation_i)
                 a == p.current_animation + 1
             IN  /\ state' = state
                 /\ Cursor(q) = Cursor(p)
                 /\ terminated(q) = terminated(p)
                 /\ \A i \in 1..Len(p.caps) : i # a => q.caps[i] = p.caps[i]
                 /\ IF p.caps[a].pos < p.caps[a].frames
                    THEN /\ q.caps[a].pos = p.caps[a].pos + 1
                         /\ q.lastframe = <<p.caps[a].file, p.caps[a].pos>>
                         /\ lastframe' = q.lastframe
                    ELSE /\ q.caps[a].pos = p.caps[a].pos
                         /\ q.lastframe = p.lastframe
                         /\ lastframe' = p.lastframe]_vars

\* update_state(Paused) has read the second frame of the second segment
C14_Witness ==
    /\ pc = "call_update_state"
    /\ state = PAUSED
    /\ current_presentation.current_animation = 1
    /\ current_cap(current_presentation).pos = 2
    /\ lastframe = <<current_cap(current_presentation).file, 1>>

\* C15: update_state(Playing) on a presentation that is not terminated:
\* when the read fails and current_animation + 1 < end_animation of the
\* current slide, current_animation grows by exactly one, the new current
\* segment is sought to its first frame, and the state and the slide index
\* are unchanged; when the read succeeds, the state and the cursor are
\* unchanged.
C15_PlayingAdvance ==
    [][(pc' = "call_update_state" /\ state = PLAYING
            /\ ~terminated(current_presentation))
          => LET p == current_presentation
                 q == DeckAfter(current_presentation_i)
             IN  IF Exhausted(p)
                 THEN p.current_animation + 1 < current_slide(p).end_animation
                        => /\ q.current_animation = p.current_animation + 1
                           /\ current_cap(q).pos = 0
                           /\ q.current_slide_i = p.current_slide_i
                           /\ state' = PLAYING
                 ELSE state' = PLAYING /\ Cursor(q) = Cursor(p)]_vars

\* update_state(Playing) has moved from the exhausted first segment of a
\* two-segment slide to the second one, at its first frame
C15_Witness ==
    /\ pc = "call_update_state"
    /\ state = PLAYING
    /\ Cursor(current_presentation) = <<0, 1>>
    /\ current_slide(current_presentation).end_animation = 2
    /\ current_presentation.caps[1].pos = current_presentation.caps[1].frames
    /\ current_cap(current_presentation).pos = 0

C17_DecksAroundActive ==
    pc = "update_state"
       => /\ 0 <= current_presentation_i
          /\ current_presentation_i < Len(presentations)
          /\ \A d \in DeckIds :
                /\ d < current_presentation_i => terminated(Deck(d))
                /\ d > current_presentation_i
                      => ~terminated(Deck(d)) /\ Deck(d).current_slide_i = 0

\* a tick starts on the second of three presentations, come back to from
\* the third one
C17_Witness ==
    /\ pc = "update_state"
    /\ Len(presentations) = 3
    /\ current_presentation_i = 1
    /\ lastframe # None
    /\ SceneOf(lastframe) = 2

\* C18: BACK_KEY handled while the active presentation is on its first
\* slide (the reset() path) leaves the newly active presentation with
\* current_animation = 0 and moves the decode position of no segment of
\* any presentation, so the next read comes from the first segment of the
\* newly active presentation, where it was left.
C18_ResetSeeksNothing ==
    [][(KeyStep(BACK_KEY) /\ current_presentation.current_slide_i = 0)
          => LET j == current_presentation_i'
             IN  /\ DeckAfter(j).current_animation = 0
                 /\ \A d \in DeckIds : Positions(DeckAfter(d)) = Positions(Deck(d))
                 /\ cap_read(current_cap(DeckAfter(j))) = cap_read(Deck(j).caps[1])]_vars

\* BACK_KEY has gone back to a presentation of several segments whose
\* first segment is exhausted and stays so
C18_Witness ==
    /\ pc = "show_video"
    /\ key = BACK_KEY
    /\ Cursor(current_presentation) = <<0, 0>>
    /\ Len(current_presentation.caps) > 1
    /\ Exhausted(current_presentation)

\* C19: CONTINUE_KEY handled while the state is Paused changes nothing: the
\* state stays Paused, and the active index and every presentation (slide
\* index, animation index, terminated flag, decode positions) are unchanged.
C19_ContinueWhenPaused ==
    [][(KeyStep(CONTINUE_KEY) /\ state = PAUSED)
          => /\ state' = PAUSED
             /\ UNCHANGED <<presentations, current_presentation_i>>]_vars

\* CONTINUE_KEY was pressed while paused on the last slide of a presentation
\* that has another one after it
C19_Witness ==
    /\ pc = "show_video"
    /\ key = CONTINUE_KEY
    /\ state = PAUSED
    /\ current_slide(current_presentation).type = "last"
    /\ current_presentation_i < Len(presentations) - 1

\* the state is Playing on a "slide" or "last" slide of a presentation that
\* is not terminated
PlayingOnSlide ==
    /\ state = PLAYING
    /\ pc # "exit"
    /\ current_slide(current_presentation).type \in {"slide", "last"}
    /\ ~terminated(current_presentation)

\* no key is pressed (ShowVideo forgets the key of the tick)
NoCommand == key = NO_KEY

\* the state is Wait on the last animation of the current slide
WaitingAtEnd ==
    /\ state = WAIT
    /\ current_presentation.current_animation
          = current_slide(current_presentation).end_animation - 1

\* a step without a key that starts Playing on such a slide, or in Wait at
\* the end of a slide, stays on the slide, and a step that starts in Wait
\* there stays in Wait with the same cursor
StaysOnSlide ==
    (NoCommand' /\ (PlayingOnSlide \/ WaitingAtEnd))
       => /\ current_presentation_i' = current_presentation_i
          /\ DeckAfter(current_presentation_i).current_slide_i
                = current_presentation.current_slide_i
          /\ WaitingAtEnd
                => /\ state' = WAIT
                   /\ Cursor(DeckAfter(current_presentation_i))
                         = Cursor(current_presentation)

\* C20 as stated: if from some point on no key is pressed while the state is
\* Playing on a "slide" or "last" slide of a presentation that is not
\* terminated, the state eventually becomes Wait with current_animation =
\* end_animation - 1 of that slide, and stays Wait with the same cursor.
C20_ReachesWait ==
    /\ []((PlayingOnSlide /\ []NoCommand) => <>WaitingAtEnd)
    /\ [][StaysOnSlide]_vars

\* C20 amended: the same, when the start_paused request is no longer
\* pending (with it pending the next tick turns Playing into Paused, which
\* only a key leaves).
C20_ReachesWaitUnlessPaused ==
    /\ []((PlayingOnSlide /\ ~start_paused /\ []NoCommand) => <>WaitingAtEnd)
    /\ [][StaysOnSlide]_vars

\* a tick starts in Wait at the end of the two-segment first slide, no key
\* having been pressed in the ticks that played its frames
C20_Witness ==
    /\ pc = "update_state"
    /\ state = WAIT
    /\ old_state = WAIT
    /\ ~start_paused
    /\ Cursor(current_presentation) = <<0, 1>>
    /\ current_slide(current_presentation).type = "slide"
    /\ \A a \in 1..2 : current_presentation.caps[a].pos = NumFrames

====
